---- MODULE Spec2Model ----
(***************************************************************************)
(* Civil Date / Time / DateTime values of package bigqueryGoDate           *)
(* (src/date.go) and the operations on them: formatting and parsing of the *)
(* canonical texts, validity, ordering, day arithmetic and the             *)
(* sql.Scanner / encoding.TextUnmarshaler adapters that write a target.    *)
(*                                                                         *)
(* A text is a sequence of one-character strings.  A time.Time is the      *)
(* record [day, sec, nsec]: the number of whole days since 0001-01-01 of   *)
(* its wall clock, the second within that day and the nanosecond within    *)
(* that second (the wall seconds of the Go value are day * 86400 + sec).   *)
(***************************************************************************)
EXTENDS Integers, Sequences, FiniteSets, TLC

VARIABLES
    d,      \* a Date: receiver of the Date methods, target of Date.Scan
    t,      \* a Time: receiver of the Time methods, target of Time.Scan
    dt,     \* a DateTime: receiver / target of the DateTime methods
    d2,     \* a Date: the argument of Before/After/Compare/DaysSince
    t2,     \* a Time: the argument of Before/After/Compare
    dt2,    \* a DateTime: the argument of Before/After/Compare
    n,      \* the sum of the day shifts applied to d2 to obtain d
    steps,  \* the number of AddDays calls made so far
    call,   \* the last call made: [op, arg]
    ret     \* what the last call returned

vars == <<d, t, dt, d2, t2, dt2, n, steps, call, ret>>

-----------------------------------------------------------------------------
(* Characters and numbers in texts                                         *)

Digits == <<"0", "1", "2", "3", "4", "5", "6", "7", "8", "9">>

isDigitChar(c) == \E i \in 1..10 : Digits[i] = c

DigitVal(c) == (CHOOSE i \in 1..10 : Digits[i] = c) - 1

\* isDigit(s, i) of package time, with i counted from 0
isDigit(s, i) == i + 1 <= Len(s) /\ isDigitChar(s[i + 1])

RECURSIVE Dec(_)
\* the decimal digits of a natural number
Dec(x) == IF x < 10 THEN <<Digits[x + 1]>>
          ELSE Append(Dec(x \div 10), Digits[(x % 10) + 1])

RECURSIVE Zeros(_)
Zeros(k) == IF k <= 0 THEN <<>> ELSE <<"0">> \o Zeros(k - 1)

\* fmt's %0<w>d: the sign first, then zeros up to the width, never truncated
PadInt(x, w) ==
    IF x < 0
    THEN <<"-">> \o Zeros(w - 1 - Len(Dec(-x))) \o Dec(-x)
    ELSE Zeros(w - Len(Dec(x))) \o Dec(x)

RECURSIVE DigitsVal(_, _, _)
\* the value of the digits s[lo], ..., s[hi], counted from 0
DigitsVal(s, lo, hi) ==
    IF hi < lo THEN 0
    ELSE 10 * DigitsVal(s, lo, hi - 1) + DigitVal(s[hi + 1])

AllDigits(s) == \A i \in 1..Len(s) : isDigitChar(s[i])

Take(s, k) == SubSeq(s, 1, k)

-----------------------------------------------------------------------------
(* The calendar of package time, as used through time.Date, Time.Date,     *)
(* Time.Clock, Time.AddDate and Time.Unix                                  *)

isLeap(year) == year % 4 = 0 /\ (year % 100 # 0 \/ year % 400 = 0)

\* daysBefore[m] of package time: days of a non-leap year before month m + 1
daysBefore == <<0, 31, 59, 90, 120, 151, 181, 212, 243, 273, 304, 334, 365>>

daysIn(month, year) ==
    IF month = 2 /\ isLeap(year) THEN 29
    ELSE daysBefore[month + 1] - daysBefore[month]

\* days from 0001-01-01 to the first of January of the year
daysSinceEpoch(year) ==
    365 * (year - 1) + ((year - 1) \div 4) - ((year - 1) \div 100)
        + ((year - 1) \div 400)

\* norm(hi, lo, base) of package time: carry lo into hi so that 0 <= lo < base
normHi(hi, lo, base) == hi + (lo \div base)

normLo(lo, base) == lo % base

\* time.Date(year, month, day, hour, min, sec, nsec, loc): out-of-range
\* fields are normalised by carrying into the next field
GoDate(year, month, day, hour, min, sec, nsec) ==
    LET m0   == month - 1
        y1   == normHi(year, m0, 12)
        mon  == normLo(m0, 12) + 1
        s1   == normHi(sec, nsec, 1000000000)
        ns1  == normLo(nsec, 1000000000)
        mi1  == normHi(min, s1, 60)
        s2   == normLo(s1, 60)
        h1   == normHi(hour, mi1, 60)
        mi2  == normLo(mi1, 60)
        dy1  == normHi(day, h1, 24)
        h2   == normLo(h1, 24)
        days == daysSinceEpoch(y1) + daysBefore[mon]
                  + (IF isLeap(y1) /\ mon >= 3 THEN 1 ELSE 0) + (dy1 - 1)
    IN  [day |-> days, sec |-> h2 * 3600 + mi2 * 60 + s2, nsec |-> ns1]

\* the year and the day of the year (from 0) of a day number
absYear(days) ==
    LET n400 == days \div 146097
        r400 == days % 146097
        c100 == r400 \div 36524
        n100 == IF c100 > 3 THEN 3 ELSE c100
        r100 == r400 - 36524 * n100
        n4   == r100 \div 1461
        r4   == r100 % 1461
        c1   == r4 \div 365
        n1   == IF c1 > 3 THEN 3 ELSE c1
    IN  [year |-> 400 * n400 + 100 * n100 + 4 * n4 + n1 + 1,
         yday |-> r4 - 365 * n1]

\* Time.Date(): the year, month and day of the wall clock
TimeDate(tm) ==
    LET a    == absYear(tm.day)
        leap == isLeap(a.year)
        \* the day of the year as if the year had no 29 February
        yd   == IF leap /\ a.yday > 59 THEN a.yday - 1 ELSE a.yday
        mon  == CHOOSE m \in 1..12 : daysBefore[m] <= yd /\ yd < daysBefore[m + 1]
    IN  IF leap /\ a.yday = 59
        THEN [Year |-> a.year, Month |-> 2, Day |-> 29]
        ELSE [Year |-> a.year, Month |-> mon, Day |-> yd - daysBefore[mon] + 1]

\* Time.Clock() and Time.Nanosecond()
TimeClock(tm) ==
    [Hour |-> tm.sec \div 3600, Minute |-> (tm.sec % 3600) \div 60,
     Second |-> tm.sec % 60, Nanosecond |-> tm.nsec]

\* Time.AddDate(0, 0, days)
AddDate(tm, days) ==
    LET c == TimeDate(tm)
        k == TimeClock(tm)
    IN  GoDate(c.Year, c.Month, c.Day + days, k.Hour, k.Minute, k.Second,
               k.Nanosecond)

\* a.Unix() - b.Unix()
UnixDelta(a, b) == (a.day - b.day) * 86400 + (a.sec - b.sec)

\* Go's integer division truncates toward zero
GoDiv(a, b) == IF a >= 0 THEN a \div b ELSE -((-a) \div b)

\* Time.Before and Time.Compare of package time
InstantBefore(a, b) ==
    \/ a.day < b.day
    \/ a.day = b.day /\ a.sec < b.sec
    \/ a.day = b.day /\ a.sec = b.sec /\ a.nsec < b.nsec

InstantCompare(a, b) ==
    IF InstantBefore(a, b) THEN -1 ELSE IF InstantBefore(b, a) THEN 1 ELSE 0

-----------------------------------------------------------------------------
(* time.Parse for the three layouts of the package.  The text is read from *)
(* left to right; a position is the number of characters read so far.      *)

NoNum == [ok |-> FALSE, val |-> 0, len |-> 0]

\* getnum(s[p:], fixed): one or two digits; two are required when fixed
getnum(s, p, fixed) ==
    IF ~isDigit(s, p) THEN NoNum
    ELSE IF ~isDigit(s, p + 1)
         THEN IF fixed THEN NoNum
              ELSE [ok |-> TRUE, val |-> DigitVal(s[p + 1]), len |-> 1]
         ELSE [ok |-> TRUE, val |-> 10 * DigitVal(s[p + 1]) + DigitVal(s[p + 2]),
               len |-> 2]

\* s[p:] starts with the literal character c of the layout
HasPrefix(s, p, c) == p + 1 <= Len(s) /\ s[p + 1] = c

commaOrPeriod(c) == c = "." \/ c = ","

RECURSIVE DigitRun(_, _)
\* the number of digits s[p:] starts with
DigitRun(s, p) == IF isDigit(s, p) THEN 1 + DigitRun(s, p + 1) ELSE 0

RECURSIVE Pow10(_)
Pow10(k) == IF k <= 0 THEN 1 ELSE 10 * Pow10(k - 1)

\* parseNanoseconds(s[p:], nbytes), s[p] being the point: at most nine
\* digits are read, scaled to nanoseconds
parseNanoseconds(s, p, nbytes) ==
    LET nb == IF nbytes > 10 THEN 10 ELSE nbytes
    IN  DigitsVal(s, p + 1, p + nb - 1) * Pow10(10 - nb)

NoFields == [ok |-> FALSE, year |-> 0, month |-> 0, day |-> 0, hour |-> 0,
             min |-> 0, sec |-> 0, nsec |-> 0, pos |-> 0]

\* layout "2006-01-02": four digits, two digits in 1..12, two digits
LayoutDate(s) ==
    LET mo == getnum(s, 5, TRUE)
        dy == getnum(s, 8, TRUE)
        ok == /\ Len(s) >= 4 /\ isDigit(s, 0) /\ AllDigits(Take(s, 4))
              /\ HasPrefix(s, 4, "-")
              /\ mo.ok /\ ~(mo.val <= 0 \/ 12 < mo.val)
              /\ HasPrefix(s, 7, "-")
              /\ dy.ok
    IN  IF ok
        THEN [NoFields EXCEPT !.ok = TRUE, !.year = DigitsVal(s, 0, 3),
                              !.month = mo.val, !.day = dy.val, !.pos = 10]
        ELSE NoFields

\* layout "15:04:05.999999999" read from position p: one or two digits of
\* hour, two of minute, two of second, and an optional fraction of any
\* number of digits
LayoutClock(s, p) ==
    LET hr   == getnum(s, p, FALSE)
        q    == p + hr.len
        mi   == getnum(s, q + 1, TRUE)
        se   == getnum(s, q + 4, TRUE)
        v    == q + 6
        frac == Len(s) - v >= 2 /\ commaOrPeriod(s[v + 1]) /\ isDigit(s, v + 1)
        i    == DigitRun(s, v + 1)
        ok   == /\ hr.ok /\ ~(hr.val < 0 \/ 24 <= hr.val)
                /\ HasPrefix(s, q, ":")
                /\ mi.ok /\ ~(mi.val < 0 \/ 60 <= mi.val)
                /\ HasPrefix(s, q + 3, ":")
                /\ se.ok /\ ~(se.val < 0 \/ 60 <= se.val)
    IN  IF ok
        THEN [NoFields EXCEPT !.ok = TRUE, !.hour = hr.val, !.min = mi.val,
                 !.sec = se.val,
                 !.nsec = IF frac THEN parseNanoseconds(s, v, 1 + i) ELSE 0,
                 !.pos = IF frac THEN v + 1 + i ELSE v]
        ELSE NoFields

\* layout "2006-01-02" sep "15:04:05.999999999", sep being "T" or "t"
LayoutDateTime(s, sep) ==
    LET da == LayoutDate(s)
        cl == LayoutClock(s, 11)
    IN  IF da.ok /\ HasPrefix(s, 10, sep) /\ cl.ok
        THEN [cl EXCEPT !.year = da.year, !.month = da.month, !.day = da.day]
        ELSE NoFields

\* the end of time.Parse: no text may be left and the day must exist in
\* the month
ParseOk(f, s) ==
    /\ f.ok
    /\ f.pos = Len(s)
    /\ ~(f.day < 1 \/ f.day > daysIn(f.month, f.year))

ParsedTime(f) == GoDate(f.year, f.month, f.day, f.hour, f.min, f.sec, f.nsec)

\* a field the layout lacks has its default: year 0, month 1, day 1
ClockOnly(f) == [f EXCEPT !.year = 0, !.month = 1, !.day = 1]

-----------------------------------------------------------------------------
(* Date                                                                    *)

ZeroDate == [Year |-> 0, Month |-> 0, Day |-> 0]

DateOf(tm) == TimeDate(tm)

ParseDate(s) ==
    LET f == LayoutDate(s)
    IN  IF ~ParseOk(f, s) THEN [v |-> ZeroDate, err |-> TRUE]
        ELSE [v |-> DateOf(ParsedTime(f)), err |-> FALSE]

DateString(x) ==
    PadInt(x.Year, 4) \o <<"-">> \o PadInt(x.Month, 2) \o <<"-">> \o PadInt(x.Day, 2)

\* Date.In(time.UTC)
DateIn(x) == GoDate(x.Year, x.Month, x.Day, 0, 0, 0, 0)

\* validity by field ranges alone, whatever the month
DateIsValidByRange(x) == x.Month \in 1..12 /\ x.Day \in 1..31

DateIsValid(x) == DateOf(DateIn(x)) = x

\* the day field is shifted by hand, without recomposing
AddDaysByField(x, k) == [x EXCEPT !.Day = @ + k]

AddDays(x, k) == DateOf(AddDate(DateIn(x), k))

\* the operands of the subtraction are exchanged
DaysSinceReversed(x, s) == GoDiv(UnixDelta(DateIn(s), DateIn(x)), 86400)

DaysSince(x, s) == GoDiv(UnixDelta(DateIn(x), DateIn(s)), 86400)

DateBefore(x, y) ==
    IF x.Year # y.Year THEN x.Year < y.Year
    ELSE IF x.Month # y.Month THEN x.Month < y.Month
    ELSE x.Day < y.Day

DateAfter(x, y) == DateBefore(y, x)

DateCompare(x, y) ==
    IF DateBefore(x, y) THEN -1 ELSE IF DateAfter(x, y) THEN 1 ELSE 0

\* only the year is looked at
DateIsZeroYearOnly(x) == x.Year = 0

DateIsZero(x) == x.Year = 0 /\ x.Month = 0 /\ x.Day = 0

-----------------------------------------------------------------------------
(* Time                                                                    *)

ZeroTime == [Hour |-> 0, Minute |-> 0, Second |-> 0, Nanosecond |-> 0]

TimeOf(tm) == TimeClock(tm)

ParseTime(s) ==
    LET f == ClockOnly(LayoutClock(s, 0))
    IN  IF ~ParseOk(f, s) THEN [v |-> ZeroTime, err |-> TRUE]
        ELSE [v |-> TimeOf(ParsedTime(f)), err |-> FALSE]

\* the fraction written without its leading zeros
TimeStringBareFraction(x) ==
    LET s == PadInt(x.Hour, 2) \o <<":">> \o PadInt(x.Minute, 2) \o <<":">>
               \o PadInt(x.Second, 2)
    IN  IF x.Nanosecond = 0 THEN s ELSE s \o <<".">> \o PadInt(x.Nanosecond, 1)

TimeString(x) ==
    LET s == PadInt(x.Hour, 2) \o <<":">> \o PadInt(x.Minute, 2) \o <<":">>
               \o PadInt(x.Second, 2)
    IN  IF x.Nanosecond = 0 THEN s ELSE s \o <<".">> \o PadInt(x.Nanosecond, 9)

TimeIsValid(x) ==
    TimeOf(GoDate(2, 2, 2, x.Hour, x.Minute, x.Second, x.Nanosecond)) = x

TimeIsZero(x) == x.Hour = 0 /\ x.Minute = 0 /\ x.Second = 0 /\ x.Nanosecond = 0

\* the nanoseconds are never compared
TimeBeforeToTheSecond(x, y) ==
    IF x.Hour # y.Hour THEN x.Hour < y.Hour
    ELSE IF x.Minute # y.Minute THEN x.Minute < y.Minute
    ELSE x.Second < y.Second

TimeBefore(x, y) ==
    IF x.Hour # y.Hour THEN x.Hour < y.Hour
    ELSE IF x.Minute # y.Minute THEN x.Minute < y.Minute
    ELSE IF x.Second # y.Second THEN x.Second < y.Second
    ELSE x.Nanosecond < y.Nanosecond

TimeAfter(x, y) == TimeBefore(y, x)

TimeCompare(x, y) ==
    IF TimeBefore(x, y) THEN -1 ELSE IF TimeAfter(x, y) THEN 1 ELSE 0

-----------------------------------------------------------------------------
(* DateTime                                                                *)

ZeroDateTime == [Date |-> ZeroDate, Time |-> ZeroTime]

DateTimeOf(tm) == [Date |-> DateOf(tm), Time |-> TimeOf(tm)]

ParseDateTime(s) ==
    LET up == LayoutDateTime(s, "T")
        lo == LayoutDateTime(s, "t")
    IN  IF ParseOk(up, s) THEN [v |-> DateTimeOf(ParsedTime(up)), err |-> FALSE]
        ELSE IF ParseOk(lo, s) THEN [v |-> DateTimeOf(ParsedTime(lo)), err |-> FALSE]
        ELSE [v |-> ZeroDateTime, err |-> TRUE]

DateTimeString(x) == DateString(x.Date) \o <<"T">> \o TimeString(x.Time)

DateTimeIsValid(x) == DateIsValid(x.Date) /\ TimeIsValid(x.Time)

\* DateTime.In(time.UTC)
DateTimeIn(x) ==
    GoDate(x.Date.Year, x.Date.Month, x.Date.Day, x.Time.Hour, x.Time.Minute,
           x.Time.Second, x.Time.Nanosecond)

\* only the dates are recomposed and compared
DateTimeBeforeByDate(x, y) == InstantBefore(DateIn(x.Date), DateIn(y.Date))

DateTimeBefore(x, y) == InstantBefore(DateTimeIn(x), DateTimeIn(y))

DateTimeAfter(x, y) == DateTimeBefore(y, x)

\* the instants are compared to the second
DateTimeCompareToTheSecond(x, y) ==
    LET a == DateTimeIn(x)
        b == DateTimeIn(y)
    IN  InstantCompare([a EXCEPT !.nsec = 0], [b EXCEPT !.nsec = 0])

DateTimeCompare(x, y) == InstantCompare(DateTimeIn(x), DateTimeIn(y))

DateTimeIsZero(x) == DateIsZero(x.Date) /\ TimeIsZero(x.Time)

-----------------------------------------------------------------------------
(* The sql.Scanner and encoding.TextUnmarshaler adapters.  A scanned value *)
(* is [kind, null, text, tm, civil]: its dynamic type, whether a pointer  *)
(* is nil, and the payload of a text, time.Time or civil kind.  Each       *)
(* adapter gives the target after the call and the error                   *)
(* returned: "nil", "FormatError" (from time.Parse) or "TypeMismatch"      *)
(* (from fmt.Errorf).                                                      *)

Done(v) == [v |-> v, err |-> "nil"]

Failed(v, err) == [v |-> v, err |-> err]

\* *target, err = Parse(text); return err
AssignParsed(r) == [v |-> r.v, err |-> IF r.err THEN "FormatError" ELSE "nil"]

DateUnmarshalText(cur, data) == AssignParsed(ParseDate(data))

DateScan(cur, value) ==
    IF value.kind = "nil" THEN Done(ZeroDate)
    ELSE CASE value.kind = "string" ->
                LET r == ParseDate(value.text)
                IN  IF r.err THEN Failed(cur, "FormatError") ELSE Done(r.v)
           [] value.kind = "time.Time" -> Done(DateOf(value.tm))
           [] value.kind = "civil.Date" ->
                Done([Year |-> value.civil.Date.Year,
                      Month |-> value.civil.Date.Month,
                      Day |-> value.civil.Date.Day])
           [] OTHER -> Failed(cur, "TypeMismatch")

TimeUnmarshalText(cur, data) == AssignParsed(ParseTime(data))

\* an absent pointer resets the target, as Date.Scan does for nil
TimeScanResettingOnAbsent(cur, value) ==
    CASE value.kind \in {"time.Time", "*time.Time"} ->
            IF value.null THEN Done(ZeroTime) ELSE Done(TimeOf(value.tm))
      [] value.kind \in {"string", "*string", "[]byte", "*[]byte"} ->
            IF value.null THEN Done(ZeroTime) ELSE AssignParsed(ParseTime(value.text))
      [] value.kind = "civil.Time" -> Done(value.civil.Time)
      [] OTHER -> Failed(cur, "TypeMismatch")

TimeScan(cur, value) ==
    CASE value.kind = "time.Time" -> Done(TimeOf(value.tm))
      [] value.kind = "*time.Time" ->
            IF ~value.null THEN Done(TimeOf(value.tm)) ELSE Done(cur)
      [] value.kind = "string" -> AssignParsed(ParseTime(value.text))
      [] value.kind = "*string" ->
            IF ~value.null THEN AssignParsed(ParseTime(value.text)) ELSE Done(cur)
      [] value.kind = "[]byte" -> AssignParsed(ParseTime(value.text))
      [] value.kind = "*[]byte" ->
            IF ~value.null THEN AssignParsed(ParseTime(value.text)) ELSE Done(cur)
      [] value.kind = "civil.Time" ->
            Done([Hour |-> value.civil.Time.Hour,
                  Minute |-> value.civil.Time.Minute,
                  Second |-> value.civil.Time.Second,
                  Nanosecond |-> value.civil.Time.Nanosecond])
      [] OTHER -> Failed(cur, "TypeMismatch")

DateTimeUnmarshalText(cur, data) == AssignParsed(ParseDateTime(data))

\* the default arm also prints the type and the value, which changes no state
DateTimeScan(cur, value) ==
    CASE value.kind = "time.Time" -> Done(DateTimeOf(value.tm))
      [] value.kind = "*time.Time" ->
            IF ~value.null THEN Done(DateTimeOf(value.tm)) ELSE Done(cur)
      [] value.kind = "civil.DateTime" ->
            Done([Date |-> [Year |-> value.civil.Date.Year,
                            Month |-> value.civil.Date.Month,
                            Day |-> value.civil.Date.Day],
                  Time |-> [Hour |-> value.civil.Time.Hour,
                            Minute |-> value.civil.Time.Minute,
                            Second |-> value.civil.Time.Second,
                            Nanosecond |-> value.civil.Time.Nanosecond]])
      [] value.kind = "string" -> AssignParsed(ParseDateTime(value.text))
      [] value.kind = "*string" ->
            IF ~value.null THEN AssignParsed(ParseDateTime(value.text)) ELSE Done(cur)
      [] value.kind = "[]byte" -> AssignParsed(ParseDateTime(value.text))
      [] value.kind = "*[]byte" ->
            IF ~value.null THEN AssignParsed(ParseDateTime(value.text)) ELSE Done(cur)
      [] OTHER -> Failed(cur, "TypeMismatch")

-----------------------------------------------------------------------------
(* Values the operations are applied to                                    *)

\* the largest day-of-month field tried; days run from 0 to MaxDay
MaxDay == 32

\* the largest magnitude of the small day shifts; longer shifts are listed
MaxShift == 2

\* the largest number of AddDays calls made in a row
MaxSteps == 2

Years == {-1, 0, 1900, 2000, 2023, 2024, 9999, 10000}

Months == {0, 1, 2, 4, 12, 13}

Days == 0..MaxDay

Dates == [Year : Years, Month : Months, Day : Days]

Times == [Hour : {-1, 0, 23, 24}, Minute : {0, 59, 60}, Second : {0, 59, 60},
          Nanosecond : {-1, 0, 1, 999000000, 999999999, 1000000000}]

DateTimes ==
    [Date : [Year : {0, 2024, 10000}, Month : {0, 2, 12}, Day : {0, 29, 30}],
     Time : [Hour : {0, 23, 24}, Minute : {0}, Second : {0, 59},
             Nanosecond : {0, 999999999}]]

\* a scanned value with no payload
NoValue ==
    [kind |-> "none", null |-> FALSE, text |-> <<>>,
     tm |-> [day |-> 0, sec |-> 0, nsec |-> 0],
     civil |-> [Date |-> ZeroDate, Time |-> ZeroTime]]

NoCall == [op |-> "none", arg |-> NoValue]

Called(op) == [op |-> op, arg |-> NoValue]

-----------------------------------------------------------------------------
(* SpecValue: the unary operations applied to one value                    *)

InitValue ==
    /\ \/ d \in Dates /\ t = ZeroTime /\ dt = ZeroDateTime
       \/ d = ZeroDate /\ t \in Times /\ dt = ZeroDateTime
       \/ d = ZeroDate /\ t = ZeroTime /\ dt \in DateTimes
    /\ d2 = ZeroDate /\ t2 = ZeroTime /\ dt2 = ZeroDateTime
    /\ n = 0 /\ steps = 0
    /\ call = NoCall
    /\ ret = "none"

Returns(op, value) ==
    /\ call' = Called(op)
    /\ ret' = value
    /\ UNCHANGED <<d, t, dt, d2, t2, dt2, n, steps>>

CallDateString == Returns("Date.String", DateString(d))

\* ParseDate applied to the text Date.String just returned
CallParseDate == call.op = "Date.String" /\ Returns("ParseDate", ParseDate(ret))

CallDateIsValid == Returns("Date.IsValid", DateIsValid(d))

CallDateIsZero == Returns("Date.IsZero", DateIsZero(d))

CallTimeString == Returns("Time.String", TimeString(t))

CallParseTime == call.op = "Time.String" /\ Returns("ParseTime", ParseTime(ret))

CallTimeIsValid == Returns("Time.IsValid", TimeIsValid(t))

CallTimeIsZero == Returns("Time.IsZero", TimeIsZero(t))

CallDateTimeString == Returns("DateTime.String", DateTimeString(dt))

CallParseDateTime ==
    call.op = "DateTime.String" /\ Returns("ParseDateTime", ParseDateTime(ret))

CallDateTimeIsValid == Returns("DateTime.IsValid", DateTimeIsValid(dt))

CallDateTimeIsZero == Returns("DateTime.IsZero", DateTimeIsZero(dt))

NextValue ==
    \/ CallDateString
    \/ CallParseDate
    \/ CallDateIsValid
    \/ CallDateIsZero
    \/ CallTimeString
    \/ CallParseTime
    \/ CallTimeIsValid
    \/ CallTimeIsZero
    \/ CallDateTimeString
    \/ CallParseDateTime
    \/ CallDateTimeIsValid
    \/ CallDateTimeIsZero

SpecValue == InitValue /\ [][NextValue]_vars

-----------------------------------------------------------------------------
(* SpecOrder: Before, After and Compare applied to a pair of values        *)

OrdDates == [Year : {-1, 0, 2024}, Month : {-1, 1, 2, 13}, Day : {-1, 1, 2, 32}]

OrdTimes == [Hour : {-1, 0, 24}, Minute : {0, 60}, Second : {-1, 0},
             Nanosecond : {0, 1, 1000000000}]

OrdDateTimes ==
    [Date : [Year : {2023, 2024}, Month : {2, 3}, Day : {1, 28, 29}],
     Time : [Hour : {0, 23, 24}, Minute : {0}, Second : {0, 59},
             Nanosecond : {0, 999999999}]]

InitOrder ==
    /\ \/ /\ d \in OrdDates /\ d2 \in OrdDates
          /\ t = ZeroTime /\ t2 = ZeroTime
          /\ dt = ZeroDateTime /\ dt2 = ZeroDateTime
       \/ /\ d = ZeroDate /\ d2 = ZeroDate
          /\ t \in OrdTimes /\ t2 \in OrdTimes
          /\ dt = ZeroDateTime /\ dt2 = ZeroDateTime
       \/ /\ d = ZeroDate /\ d2 = ZeroDate
          /\ t = ZeroTime /\ t2 = ZeroTime
          /\ dt \in OrdDateTimes /\ dt2 \in OrdDateTimes
    /\ n = 0 /\ steps = 0
    /\ call = NoCall
    /\ ret = "none"

CallDateBefore == Returns("Date.Before", DateBefore(d, d2))

CallDateAfter == Returns("Date.After", DateAfter(d, d2))

CallDateCompare == Returns("Date.Compare", DateCompare(d, d2))

CallTimeBefore == Returns("Time.Before", TimeBefore(t, t2))

CallTimeAfter == Returns("Time.After", TimeAfter(t, t2))

CallTimeCompare == Returns("Time.Compare", TimeCompare(t, t2))

CallDateTimeBefore == Returns("DateTime.Before", DateTimeBefore(dt, dt2))

CallDateTimeAfter == Returns("DateTime.After", DateTimeAfter(dt, dt2))

CallDateTimeCompare == Returns("DateTime.Compare", DateTimeCompare(dt, dt2))

NextOrder ==
    \/ CallDateBefore
    \/ CallDateAfter
    \/ CallDateCompare
    \/ CallTimeBefore
    \/ CallTimeAfter
    \/ CallTimeCompare
    \/ CallDateTimeBefore
    \/ CallDateTimeAfter
    \/ CallDateTimeCompare

SpecOrder == InitOrder /\ [][NextOrder]_vars

-----------------------------------------------------------------------------
(* SpecDays: d2 is a date, d the date reached from it by AddDays calls     *)

OriginDates ==
    [Year : {1900, 2023, 2024}, Month : {2, 3, 12, 13}, Day : Days]

Shifts == {-366, -365, -31, 28, 31, 365, 366} \cup (-MaxShift..MaxShift)

InitDays ==
    /\ d2 \in OriginDates
    /\ d = d2
    /\ t = ZeroTime /\ dt = ZeroDateTime
    /\ t2 = ZeroTime /\ dt2 = ZeroDateTime
    /\ n = 0 /\ steps = 0
    /\ call = NoCall
    /\ ret = "none"

\* d = d.AddDays(k)
CallAddDays(k) ==
    /\ steps < MaxSteps
    /\ d' = AddDays(d, k)
    /\ n' = n + k
    /\ steps' = steps + 1
    /\ call' = Called("Date.AddDays")
    /\ ret' = d'
    /\ UNCHANGED <<t, dt, d2, t2, dt2>>

\* d.DaysSince(d2)
CallDaysSince ==
    /\ call' = Called("Date.DaysSince")
    /\ ret' = DaysSince(d, d2)
    /\ UNCHANGED <<d, t, dt, d2, t2, dt2, n, steps>>

NextDays ==
    \/ \E k \in Shifts : CallAddDays(k)
    \/ CallDaysSince

SpecDays == InitDays /\ [][NextDays]_vars

-----------------------------------------------------------------------------
(* Spec: one Date, one Time and one DateTime target, written by any        *)
(* sequence of Scan and UnmarshalText calls                                *)

\* "2014-08-20"
TextDate ==
    <<"2", "0", "1", "4", "-", "0", "8", "-", "2", "0">>

\* "2023-02-30"
TextBadDate ==
    <<"2", "0", "2", "3", "-", "0", "2", "-", "3", "0">>

\* "15:04:05.999"
TextTime ==
    <<"1", "5", ":", "0", "4", ":",
      "0", "5", ".", "9", "9", "9">>

\* "24:00:00"
TextBadTime ==
    <<"2", "4", ":", "0", "0", ":", "0", "0">>

\* "2014-08-20t15:04:05"
TextDateTime ==
    <<"2", "0", "1", "4", "-", "0", "8", "-", "2",
      "0", "t", "1", "5", ":", "0", "4", ":", "0", "5">>

\* "2014-08-20 15:04:05"
TextBadDateTime ==
    <<"2", "0", "1", "4", "-", "0", "8", "-", "2",
      "0", " ", "1", "5", ":", "0", "4", ":", "0", "5">>

Texts == {TextDate, TextBadDate, TextTime, TextBadTime, TextDateTime,
          TextBadDateTime}

\* 2014-08-20 15:04:05.000000999 on the wall clock of the time.Time's zone
SomeInstant == GoDate(2014, 8, 20, 15, 4, 5, 999)

TextValue(kind, text) == [NoValue EXCEPT !.kind = kind, !.text = text]

AbsentValue(kind) == [NoValue EXCEPT !.kind = kind, !.null = TRUE]

InstantValue(kind) == [NoValue EXCEPT !.kind = kind, !.tm = SomeInstant]

CivilValue(kind) ==
    [NoValue EXCEPT !.kind = kind,
        !.civil = [Date |-> [Year |-> 2023, Month |-> 2, Day |-> 30],
                   Time |-> [Hour |-> 23, Minute |-> 59, Second |-> 59,
                             Nanosecond |-> 1]]]

ScanValues ==
    {TextValue(k, x) :
        k \in {"string", "*string", "[]byte", "*[]byte"}, x \in Texts}
    \cup {AbsentValue(k) : k \in {"*string", "*[]byte", "*time.Time"}}
    \cup {InstantValue(k) : k \in {"time.Time", "*time.Time"}}
    \cup {CivilValue(k) : k \in {"civil.Date", "civil.Time", "civil.DateTime"}}
    \cup {[NoValue EXCEPT !.kind = k] : k \in {"nil", "int64"}}

Init ==
    /\ d = ZeroDate /\ t = ZeroTime /\ dt = ZeroDateTime
    /\ d2 = ZeroDate /\ t2 = ZeroTime /\ dt2 = ZeroDateTime
    /\ n = 0 /\ steps = 0
    /\ call = NoCall
    /\ ret = "nil"

Calls(op, value, r) ==
    /\ call' = [op |-> op, arg |-> value]
    /\ ret' = r.err

CallDateScan(value) ==
    LET r == DateScan(d, value)
    IN  /\ d' = r.v
        /\ Calls("Date.Scan", value, r)
        /\ UNCHANGED <<t, dt, d2, t2, dt2, n, steps>>

CallDateUnmarshalText(data) ==
    LET r == DateUnmarshalText(d, data)
    IN  /\ d' = r.v
        /\ Calls("Date.UnmarshalText", TextValue("[]byte", data), r)
        /\ UNCHANGED <<t, dt, d2, t2, dt2, n, steps>>

CallTimeScan(value) ==
    LET r == TimeScan(t, value)
    IN  /\ t' = r.v
        /\ Calls("Time.Scan", value, r)
        /\ UNCHANGED <<d, dt, d2, t2, dt2, n, steps>>

CallTimeUnmarshalText(data) ==
    LET r == TimeUnmarshalText(t, data)
    IN  /\ t' = r.v
        /\ Calls("Time.UnmarshalText", TextValue("[]byte", data), r)
        /\ UNCHANGED <<d, dt, d2, t2, dt2, n, steps>>

CallDateTimeScan(value) ==
    LET r == DateTimeScan(dt, value)
    IN  /\ dt' = r.v
        /\ Calls("DateTime.Scan", value, r)
        /\ UNCHANGED <<d, t, d2, t2, dt2, n, steps>>

CallDateTimeUnmarshalText(data) ==
    LET r == DateTimeUnmarshalText(dt, data)
    IN  /\ dt' = r.v
        /\ Calls("DateTime.UnmarshalText", TextValue("[]byte", data), r)
        /\ UNCHANGED <<d, t, d2, t2, dt2, n, steps>>

Next ==
    \/ \E value \in ScanValues : CallDateScan(value)
    \/ \E data \in Texts : CallDateUnmarshalText(data)
    \/ \E value \in ScanValues : CallTimeScan(value)
    \/ \E data \in Texts : CallTimeUnmarshalText(data)
    \/ \E value \in ScanValues : CallDateTimeScan(value)
    \/ \E data \in Texts : CallDateTimeUnmarshalText(data)

Spec == Init /\ [][Next]_vars

-----------------------------------------------------------------------------
(* Claims on the unary operations, checked under SpecValue                 *)

Parsed(v) == [v |-> v, err |-> FALSE]

\* C2 as stated: for every valid Date, Time or DateTime, whatever its year,
\* parsing the text String() returns succeeds and gives the value back.
C2_RoundTripEveryValid ==
    /\ call.op = "ParseDate" /\ DateIsValid(d) => ret = Parsed(d)
    /\ call.op = "ParseTime" /\ TimeIsValid(t) => ret = Parsed(t)
    /\ call.op = "ParseDateTime" /\ DateTimeIsValid(dt) => ret = Parsed(dt)

FourDigitYear(x) == x.Year \in 0..9999

\* C2 amended: the round trip holds for every valid Time and for every valid
\* Date and DateTime whose year is in 0..9999; for a valid Date or DateTime
\* whose year is outside 0..9999 the parser fails on the text of String().
C2_RoundTripFourDigitYear ==
    /\ call.op = "ParseDate" /\ DateIsValid(d) =>
          IF FourDigitYear(d) THEN ret = Parsed(d) ELSE ret.err
    /\ call.op = "ParseTime" /\ TimeIsValid(t) => ret = Parsed(t)
    /\ call.op = "ParseDateTime" /\ DateTimeIsValid(dt) =>
          IF FourDigitYear(dt.Date) THEN ret = Parsed(dt) ELSE ret.err

C2_Witness ==
    /\ call.op = "ParseTime"
    /\ TimeIsValid(t)
    /\ t.Nanosecond = 1
    /\ ret = Parsed(t)

\* the Gregorian calendar, stated without the library
GregorianLeap(year) ==
    (year % 4 = 0 /\ year % 100 # 0) \/ year % 400 = 0

GregorianDays(year, month) ==
    IF month \in {4, 6, 9, 11} THEN 30
    ELSE IF month = 2 THEN (IF GregorianLeap(year) THEN 29 ELSE 28)
    ELSE 31

\* C7: Date.IsValid() is true exactly when the month is in 1..12 and the day
\* is in 1..(days of that month in that year, Gregorian leap-year rule).
C7_IsValidIsCalendarValidity ==
    call.op = "Date.IsValid" =>
        (ret <=> /\ d.Month \in 1..12
                 /\ d.Day \in 1..GregorianDays(d.Year, d.Month))

C7_Witness ==
    /\ call.op = "Date.IsValid"
    /\ d = [Year |-> 2024, Month |-> 2, Day |-> 29]
    /\ ret = TRUE

\* C8 as stated: for no value of Date, Time or DateTime are IsZero() and
\* IsValid() both true.
C8_ZeroNeverValid ==
    /\ call.op = "Date.IsValid" /\ ret => ~DateIsZero(d)
    /\ call.op = "Time.IsValid" /\ ret => ~TimeIsZero(t)
    /\ call.op = "DateTime.IsValid" /\ ret => ~DateTimeIsZero(dt)

\* C8 amended: for no value of Date or DateTime are IsZero() and IsValid()
\* both true; the zero Time (midnight) is zero and valid, and every zero
\* Date and DateTime is invalid.
C8_ZeroDateNeverValid ==
    /\ call.op = "Date.IsValid" =>
          /\ ret => ~DateIsZero(d)
          /\ d = ZeroDate => DateIsZero(d) /\ ~ret
    /\ call.op = "DateTime.IsValid" =>
          /\ ret => ~DateTimeIsZero(dt)
          /\ dt = ZeroDateTime => DateTimeIsZero(dt) /\ ~ret
    /\ call.op = "Time.IsValid" /\ TimeIsZero(t) => ret

C8_Witness ==
    /\ call.op = "DateTime.IsValid"
    /\ DateTimeIsZero(dt)
    /\ ret = FALSE

-----------------------------------------------------------------------------
(* Claims on the orderings, checked under SpecOrder                        *)

ExactlyOne(p, q, r) ==
    \/ p /\ ~q /\ ~r
    \/ ~p /\ q /\ ~r
    \/ ~p /\ ~q /\ r

\* the lexicographic order on tuples of integers of the same length
LexLess(a, b) ==
    \E i \in 1..Len(a) : a[i] < b[i] /\ \A j \in 1..(i - 1) : a[j] = b[j]

Sign(less, greater) == IF less THEN -1 ELSE IF greater THEN 1 ELSE 0

DateKey(x) == <<x.Year, x.Month, x.Day>>

TimeKey(x) == <<x.Hour, x.Minute, x.Second, x.Nanosecond>>

\* C3 as stated: for all DateTime a, b exactly one of a.Before(b),
\* a.After(b), a == b holds, and a.Compare(b) is -1, +1, 0 respectively.
C3_DateTimeOrderIsStructural ==
    /\ call.op = "DateTime.Before" =>
          ExactlyOne(ret, DateTimeAfter(dt, dt2), dt = dt2)
    /\ call.op = "DateTime.After" =>
          ExactlyOne(DateTimeBefore(dt, dt2), ret, dt = dt2)
    /\ call.op = "DateTime.Compare" =>
          /\ ret = -1 <=> DateTimeBefore(dt, dt2)
          /\ ret = 1 <=> DateTimeAfter(dt, dt2)
          /\ ret = 0 <=> dt = dt2

SameInstant(x, y) == DateTimeIn(x) = DateTimeIn(y)

\* C3 amended: for all DateTime a, b exactly one of a.Before(b), a.After(b),
\* "a and b recompose to the same UTC instant" holds, and a.Compare(b) is
\* -1, +1, 0 respectively; Compare is 0 for structurally equal operands, and
\* is 0 for structurally different ones only if one of them is invalid.
C3_DateTimeOrderIsByInstant ==
    /\ call.op = "DateTime.Before" =>
          ExactlyOne(ret, DateTimeAfter(dt, dt2), SameInstant(dt, dt2))
    /\ call.op = "DateTime.After" =>
          ExactlyOne(DateTimeBefore(dt, dt2), ret, SameInstant(dt, dt2))
    /\ call.op = "DateTime.Compare" =>
          /\ ret = -1 <=> DateTimeBefore(dt, dt2)
          /\ ret = 1 <=> DateTimeAfter(dt, dt2)
          /\ ret = 0 <=> SameInstant(dt, dt2)
          /\ dt = dt2 => ret = 0
          /\ ret = 0 /\ dt # dt2 => ~DateTimeIsValid(dt) \/ ~DateTimeIsValid(dt2)

C3_Witness ==
    /\ call.op = "DateTime.Compare"
    /\ ret = 0
    /\ dt # dt2
    /\ DateTimeIsValid(dt2)

\* C4: for all Date a, b and all Time a, b, whatever their fields, exactly
\* one of a.Before(b), a.After(b), a == b holds; Before is the lexicographic
\* order on (year, month, day) resp. (hour, minute, second, nanosecond);
\* Compare is -1 iff Before, +1 iff After, 0 iff structurally equal.
C4_FieldOrder ==
    /\ call.op = "Date.Before" =>
          /\ ret <=> LexLess(DateKey(d), DateKey(d2))
          /\ ExactlyOne(ret, DateAfter(d, d2), d = d2)
    /\ call.op = "Date.After" => (ret <=> LexLess(DateKey(d2), DateKey(d)))
    /\ call.op = "Date.Compare" =>
          /\ ret = Sign(LexLess(DateKey(d), DateKey(d2)),
                        LexLess(DateKey(d2), DateKey(d)))
          /\ ret = -1 <=> DateBefore(d, d2)
          /\ ret = 1 <=> DateAfter(d, d2)
          /\ ret = 0 <=> d = d2
    /\ call.op = "Time.Before" =>
          /\ ret <=> LexLess(TimeKey(t), TimeKey(t2))
          /\ ExactlyOne(ret, TimeAfter(t, t2), t = t2)
    /\ call.op = "Time.After" => (ret <=> LexLess(TimeKey(t2), TimeKey(t)))
    /\ call.op = "Time.Compare" =>
          /\ ret = Sign(LexLess(TimeKey(t), TimeKey(t2)),
                        LexLess(TimeKey(t2), TimeKey(t)))
          /\ ret = -1 <=> TimeBefore(t, t2)
          /\ ret = 1 <=> TimeAfter(t, t2)
          /\ ret = 0 <=> t = t2

C4_Witness ==
    /\ call.op = "Time.Compare"
    /\ ret = -1
    /\ t.Hour = t2.Hour /\ t.Minute = t2.Minute /\ t.Second = t2.Second
    /\ t2.Nanosecond = 1000000000

\* C10: for valid DateTime a, b, a.Before(b) holds exactly when
\* (a.Date, a.Time) is lexicographically smaller than (b.Date, b.Time) under
\* Date.Before and Time.Before, and a.Compare(b) == 0 exactly when a == b.
C10_ValidOrderIsFieldOrder ==
    DateTimeIsValid(dt) /\ DateTimeIsValid(dt2) =>
        /\ call.op = "DateTime.Before" =>
              (ret <=> \/ DateBefore(dt.Date, dt2.Date)
                       \/ dt.Date = dt2.Date /\ TimeBefore(dt.Time, dt2.Time))
        /\ call.op = "DateTime.Compare" => (ret = 0 <=> dt = dt2)

C10_Witness ==
    /\ call.op = "DateTime.Before"
    /\ DateTimeIsValid(dt) /\ DateTimeIsValid(dt2)
    /\ dt.Date = dt2.Date
    /\ dt.Time.Nanosecond < dt2.Time.Nanosecond
    /\ ret = TRUE

-----------------------------------------------------------------------------
(* Claims on the day arithmetic, checked under SpecDays                    *)

\* C1: for every valid Date d2 and every shift n, d2.AddDays(n).DaysSince(d2)
\* is n (here also when the n days are added in several AddDays calls), and
\* the difference of the two UTC midnights is exactly 86400 times the result.
C1_DaysSinceInvertsAddDays ==
    call.op = "Date.DaysSince" /\ DateIsValid(d2) =>
        /\ ret = n
        /\ UnixDelta(DateIn(d), DateIn(d2)) = 86400 * ret

C1_Witness ==
    /\ call.op = "Date.DaysSince"
    /\ steps = 1
    /\ d2 = [Year |-> 2023, Month |-> 3, Day |-> 1]
    /\ d = [Year |-> 2024, Month |-> 3, Day |-> 1]
    /\ ret = 366

\* C9: for every Date d2, valid or not, AddDays calls compose additively
\* (the date reached by shifts summing to n is d2.AddDays(n)), every date
\* AddDays returns is valid, and for valid d2, d2.AddDays(0) == d2.
C9_AddDaysAdditiveAndValid ==
    steps >= 1 =>
        /\ d = AddDays(d2, n)
        /\ DateIsValid(d)
        /\ call.op = "Date.AddDays" => ret = d
        /\ DateIsValid(d2) /\ n = 0 => d = d2

C9_Witness ==
    /\ call.op = "Date.AddDays"
    /\ steps = 2
    /\ ~DateIsValid(d2)
    /\ n = -365 + 28
    /\ d = AddDays(d2, n)

-----------------------------------------------------------------------------
(* Claims on the adapters, checked under Spec                              *)

IsAbsent(value) ==
    value.kind \in {"*time.Time", "*string", "*[]byte"} /\ value.null

\* C5: Date.Scan of nil succeeds and leaves the target the zero Date
\* whatever it held; Time.Scan and DateTime.Scan of an absent *time.Time,
\* *string or *[]byte succeed and leave the target as it was.
C5_NullPolicy ==
    [][/\ call'.op = "Date.Scan" /\ call'.arg.kind = "nil" =>
              d' = ZeroDate /\ ret' = "nil"
       /\ call'.op = "Time.Scan" /\ IsAbsent(call'.arg) =>
              t' = t /\ ret' = "nil"
       /\ call'.op = "DateTime.Scan" /\ IsAbsent(call'.arg) =>
              dt' = dt /\ ret' = "nil"]_vars

C5_Witness ==
    /\ call.op = "Time.Scan"
    /\ IsAbsent(call.arg)
    /\ ret = "nil"
    /\ t # ZeroTime
    /\ d = ZeroDate
    /\ dt # ZeroDateTime

\* C6: whenever a Scan or UnmarshalText call returns an error, the three
\* targets are after the call what they were before it.
C6_FailureLeavesTarget ==
    [][ret' # "nil" => d' = d /\ t' = t /\ dt' = dt]_vars

====
